---- MODULE Spec2Model ----
(***************************************************************************)
(* Model of src/logic.rs: the Formula tree and the three rewrite passes    *)
(* simplify1 (remove -> and <->), simplify2 (push negation to the leaves), *)
(* simplify3 (distribute), and their composition simplify.                 *)
(*                                                                         *)
(* A Formula is a record [tag, sym, kids]: tag is the enum variant, sym    *)
(* the character of an Atom ("" otherwise), kids the owned sub-formulas in *)
(* order (Not: 1, Implies/Iff: 2 = <<l, r>>, And/Or: the Vec).             *)
(* A call that panics (unimplemented!(), or a remainder by zero) yields    *)
(* the value Fault; a panic unwinds through every enclosing call, so any   *)
(* node built from a Fault child is Fault.                                 *)
(***************************************************************************)
EXTENDS Integers, Sequences, FiniteSets

\* ------------------------------------------------------------------ bounds
MaxSize == 4        \* node count of the exhaustively generated formulas
MaxKids == 3        \* children of the root of a distribution input
MaxChoices == 3     \* children of an Or inside a distribution input

\* ------------------------------------------------------- enum Formula
Atom(c) == [tag |-> "Atom", sym |-> c, kids |-> <<>>]
Not(n) == [tag |-> "Not", sym |-> "", kids |-> <<n>>]
Implies(l, r) == [tag |-> "Implies", sym |-> "", kids |-> <<l, r>>]
Iff(l, r) == [tag |-> "Iff", sym |-> "", kids |-> <<l, r>>]
And(v) == [tag |-> "And", sym |-> "", kids |-> v]
Or(v) == [tag |-> "Or", sym |-> "", kids |-> v]

\* The outcome of a call that panicked.
Fault == [tag |-> "Fault", sym |-> "", kids |-> <<>>]

\* A node built from the results of recursive calls: if one of the calls
\* panicked, the node is never built.
HasFault(v) == \E i \in 1..Len(v) : v[i] = Fault
Build(node) == IF HasFault(node.kids) THEN Fault ELSE node

\* v.into_iter().map(|x| F(x)).collect()
Map(F(_), v) == [i \in 1..Len(v) |-> F(v[i])]

\* ------------------------------------------------------- clone
RECURSIVE clone(_)
clone(f) ==
    CASE f.tag = "Atom" -> Atom(f.sym)
      [] f.tag = "Not" -> Not(clone(f.kids[1]))
      [] f.tag = "Implies" -> Implies(clone(f.kids[1]), clone(f.kids[2]))
      [] f.tag = "Iff" -> Iff(clone(f.kids[1]), clone(f.kids[2]))
      [] f.tag = "And" -> And([i \in 1..Len(f.kids) |-> clone(f.kids[i])])
      [] f.tag = "Or" -> Or([i \in 1..Len(f.kids) |-> clone(f.kids[i])])

\* ------------------------------------------------------- simplify1
RECURSIVE simplify1(_)

\* Implies { l, r } arm, given the operands (l unsimplified, r unsimplified).
ImpliesArmNoNot(l, r) == Or(<<simplify1(l), simplify1(r)>>)
ImpliesArm(l, r) == Or(<<Not(simplify1(l)), simplify1(r)>>)

\* Iff { l, r } arm.
IffArm(l, r) ==
    LET ls == simplify1(l)
        rs == simplify1(r)
        nl == Or(<<Not(clone(ls)), clone(rs)>>)
        nr == Or(<<Not(rs), ls>>)
    IN And(<<nl, nr>>)

\* The closure |x| simplify1(x) mapped over the children of And / Or.
Elim1Skip(x) == x
Elim1(x) == simplify1(x)

simplify1(f) ==
    CASE f.tag = "Atom" -> f
      [] f.tag = "Not" -> Not(simplify1(f.kids[1]))
      [] f.tag = "Implies" -> ImpliesArm(f.kids[1], f.kids[2])
      [] f.tag = "Iff" -> IffArm(f.kids[1], f.kids[2])
      [] f.tag = "And" -> And(Map(Elim1, f.kids))
      [] f.tag = "Or" -> Or(Map(Elim1, f.kids))

\* ------------------------------------------------------- simplify2
RECURSIVE simplify2(_)

\* The closure |x| simplify2(Formula::Not(box x)) of the De Morgan arms.
PushNotOnce(x) == Not(x)
PushNot(x) == simplify2(Not(x))

simplify2(f) ==
    CASE f.tag = "Atom" -> f
      [] f.tag = "Not" /\ f.kids[1].tag = "Not" -> simplify2(f.kids[1].kids[1])
      [] f.tag = "Not" /\ f.kids[1].tag = "And" ->
            Build(Or(Map(PushNot, f.kids[1].kids)))
      [] f.tag = "Not" /\ f.kids[1].tag = "Or" ->
            Build(And(Map(PushNot, f.kids[1].kids)))
      [] f.tag = "Not" /\ f.kids[1].tag \notin {"Not", "And", "Or"} -> f
      [] f.tag = "And" -> Build(And(Map(simplify2, f.kids)))
      [] f.tag = "Or" -> Build(Or(Map(simplify2, f.kids)))
      [] f.tag \in {"Implies", "Iff"} -> Fault

\* ------------------------------------------------------- simplify3
RECURSIVE simplify3(_)

\* g @ Formula::Or(_) => g
OrArmRecurse(f) == Build(Or(Map(simplify3, f.kids)))
OrArm(f) == f

\* The loop over the distributed children that fills singles and multiples.
RECURSIVE Singles(_)
Singles(d) ==
    IF d = <<>> THEN <<>>
    ELSE IF Head(d).tag = "Or" THEN Singles(Tail(d))
         ELSE <<Head(d)>> \o Singles(Tail(d))

RECURSIVE Multiples(_)
Multiples(d) ==
    IF d = <<>> THEN <<>>
    ELSE IF Head(d).tag = "Or" THEN <<Head(d).kids>> \o Multiples(Tail(d))
         ELSE Multiples(Tail(d))

\* multiples.iter().fold(1, |acc, ref x| acc * x.len())
RECURSIVE Fold(_, _)
Fold(acc, multiples) ==
    IF multiples = <<>> THEN acc
    ELSE Fold(acc * Len(Head(multiples)), Tail(multiples))

Iterations(multiples) == Fold(1, multiples)

\* The inner loop "for ov in &multiples": the picks pushed onto conj, starting
\* from the given offset.  offset % 0 panics.
RECURSIVE PicksNoDivide(_, _)
PicksNoDivide(multiples, offset) ==
    IF multiples = <<>> THEN <<>>
    ELSE LET ov == Head(multiples) IN
         IF Len(ov) = 0 THEN <<Fault>>
         ELSE <<clone(ov[(offset % Len(ov)) + 1])>>
                 \o PicksNoDivide(Tail(multiples), offset)

RECURSIVE Picks(_, _)
Picks(multiples, offset) ==
    IF multiples = <<>> THEN <<>>
    ELSE LET ov == Head(multiples) IN
         IF Len(ov) = 0 THEN <<Fault>>
         ELSE <<clone(ov[(offset % Len(ov)) + 1])>>
                 \o Picks(Tail(multiples), offset \div Len(ov))

\* One iteration of "for i in 0..iterations": the clause pushed onto disj.
Clause(singles, multiples, i) ==
    Build(And(Map(clone, singles) \o Picks(multiples, i)))

\* Formula::And(v) arm, given the distributed children.
AndArm(d) ==
    LET singles == Singles(d)
        multiples == Multiples(d)
        iterations == Iterations(multiples)
        disj == [j \in 1..iterations |-> Clause(singles, multiples, j - 1)]
    IN Build(Or(disj))

simplify3(f) ==
    CASE f.tag \in {"Atom", "Not"} -> f
      [] f.tag = "Or" -> OrArm(f)
      [] f.tag \in {"Implies", "Iff"} -> Fault
      [] f.tag = "And" ->
            LET d == Map(simplify3, f.kids) IN
            IF HasFault(d) THEN Fault ELSE AndArm(d)

\* ------------------------------------------------------- simplify
simplify(f) ==
    LET s1 == simplify1(f)
        s2 == simplify2(s1)
    IN IF s2 = Fault THEN Fault ELSE simplify3(s2)

\* ------------------------------------------------------- inputs
\* Atoms of the exhaustively generated formulas.
Atoms == {"P", "Q"}

\* Every formula of exactly n nodes over Atoms, and every Vec of formulas of
\* m nodes in total.
RECURSIVE OfSize(_), VecsOfSize(_)
VecsOfSize(m) ==
    IF m = 0 THEN {<<>>}
    ELSE UNION { { <<h>> \o t : h \in OfSize(i), t \in VecsOfSize(m - i) } :
                 i \in 1..m }
OfSize(n) ==
    IF n < 1 THEN {}
    ELSE (IF n = 1 THEN {Atom(a) : a \in Atoms} ELSE {})
         \cup {Not(x) : x \in OfSize(n - 1)}
         \cup UNION { { Implies(l, r) : l \in OfSize(i), r \in OfSize(n - 1 - i) } :
                      i \in 1..(n - 2) }
         \cup UNION { { Iff(l, r) : l \in OfSize(i), r \in OfSize(n - 1 - i) } :
                      i \in 1..(n - 2) }
         \cup {And(v) : v \in VecsOfSize(n - 1)}
         \cup {Or(v) : v \in VecsOfSize(n - 1)}

Generated == UNION { OfSize(n) : n \in 1..MaxSize }

\* Inputs of the distribution pass: an And or Or whose children are literals,
\* disjunctions of 0..MaxChoices literals, or a conjunction holding one.
Lits == << Atom("P"), Not(Atom("Q")), Atom("R"),
           Not(Atom("P")), Atom("Q"), Not(Atom("R")) >>
LitAt(i) == Lits[((i - 1) % Len(Lits)) + 1]
Clause0(n) == Or([i \in 1..n |-> LitAt(i)])
Pool ==
    {Atom("P"), Not(Atom("Q"))}
    \cup {Clause0(n) : n \in 0..MaxChoices}
    \cup {And(<<Atom("R"), Clause0(2)>>)}
VecsOver(S, n) == UNION { [1..m -> S] : m \in 0..n }
DistInputs ==
    {And(v) : v \in VecsOver(Pool, MaxKids)}
    \cup {Or(v) : v \in VecsOver(Pool, MaxKids)}

\* The three formulas main builds.
MainNN == Not(Not(Atom("A")))
MainExample == Implies(And(<<Atom("P"), Not(Atom("Q"))>>), Atom("R"))
MainAnother == Iff(Or(<<Atom("P"), Atom("Q")>>), Atom("R"))
MainInputs == {MainNN, MainExample, MainAnother}

Inputs == Generated \cup DistInputs \cup MainInputs

\* ------------------------------------------------------- state
VARIABLES
    input,      \* the formula the caller constructed
    prev,       \* the argument of the last call
    g,          \* the value returned by the last call (Fault: it panicked)
    calls       \* the functions called so far, each on the previous result

vars == <<input, prev, g, calls>>

Init ==
    /\ input \in Inputs
    /\ prev = input
    /\ g = input
    /\ calls = <<>>

Call(name, result) ==
    /\ g # Fault
    /\ prev' = g
    /\ g' = result
    /\ calls' = Append(calls, name)
    /\ UNCHANGED input

\* simplify(f), as main calls it; and once more on its own result.
Simplify ==
    /\ calls \in {<<>>, <<"simplify">>}
    /\ Call("simplify", simplify(g))

\* simplify1(f) on the caller's formula.
Simplify1 ==
    /\ calls = <<>>
    /\ Call("simplify1", simplify1(g))

\* simplify2(f) on the caller's formula or on simplify1's result.
Simplify2 ==
    /\ calls \in {<<>>, <<"simplify1">>}
    /\ Call("simplify2", simplify2(g))

\* simplify3(f) on the caller's formula or on simplify2(simplify1(f)).
Simplify3 ==
    /\ calls \in {<<>>, <<"simplify1", "simplify2">>}
    /\ Call("simplify3", simplify3(g))

Next == Simplify \/ Simplify1 \/ Simplify2 \/ Simplify3

Spec == Init /\ [][Next]_vars

\* ------------------------------------------------------- semantics
AllAtoms == {"A", "P", "Q", "R"}
Assignments == [AllAtoms -> BOOLEAN]

\* Truth value of a formula; an empty And is true, an empty Or is false.
RECURSIVE evaluate(_, _)
evaluate(f, a) ==
    CASE f.tag = "Atom" -> a[f.sym]
      [] f.tag = "Not" -> ~evaluate(f.kids[1], a)
      [] f.tag = "Implies" -> (evaluate(f.kids[1], a) => evaluate(f.kids[2], a))
      [] f.tag = "Iff" -> (evaluate(f.kids[1], a) <=> evaluate(f.kids[2], a))
      [] f.tag = "And" -> \A i \in 1..Len(f.kids) : evaluate(f.kids[i], a)
      [] f.tag = "Or" -> \E i \in 1..Len(f.kids) : evaluate(f.kids[i], a)

\* ------------------------------------------------------- shapes
RECURSIVE Contains(_, _)
Contains(f, tags) ==
    \/ f.tag \in tags
    \/ \E i \in 1..Len(f.kids) : Contains(f.kids[i], tags)

IsLiteral(f) ==
    \/ f.tag = "Atom"
    \/ f.tag = "Not" /\ f.kids[1].tag = "Atom"

\* No Implies, no Iff, and every Not wraps an Atom.
RECURSIVE NegationNormal(_)
NegationNormal(f) ==
    /\ f.tag \in {"Atom", "Not", "And", "Or"}
    /\ f.tag = "Not" => f.kids[1].tag = "Atom"
    /\ \A i \in 1..Len(f.kids) : NegationNormal(f.kids[i])

IsClause(f) == f.tag = "Or" /\ \A i \in 1..Len(f.kids) : IsLiteral(f.kids[i])

\* A literal, a bare clause, or an And of clauses.
CNFShape(f) ==
    \/ IsLiteral(f)
    \/ IsClause(f)
    \/ f.tag = "And" /\ \A i \in 1..Len(f.kids) : IsClause(f.kids[i])

\* The tree with the order of And / Or children forgotten: kids becomes the
\* bag of <<position, child>>, position being 0 under And / Or.
RECURSIVE Unordered(_)
Unordered(f) ==
    LET items == [i \in 1..Len(f.kids) |->
                    <<IF f.tag \in {"And", "Or"} THEN 0 ELSE i,
                      Unordered(f.kids[i])>>]
        elems == {items[i] : i \in 1..Len(items)}
    IN [tag |-> f.tag, sym |-> f.sym,
        kids |-> [e \in elems |-> Cardinality({i \in 1..Len(items) : items[i] = e})]]

Last(s) == s[Len(s)]

\* ------------------------------------------------------- properties

\* C1: semantic equivalence.  For every input formula and every truth
\* assignment, the formula simplify returns has the truth value of the input.
SemanticEquivalence ==
    (calls = <<"simplify">> /\ g # Fault) =>
        \A a \in Assignments : evaluate(g, a) = evaluate(input, a)

\* A biconditional has been rewritten into a different tree that is neither
\* valid nor unsatisfiable.
SemanticEquivalenceWitness ==
    /\ calls = <<"simplify">>
    /\ input.tag = "Iff"
    /\ g.tag = "Or"
    /\ g # input
    /\ \E a \in Assignments : evaluate(g, a)
    /\ \E a \in Assignments : ~evaluate(g, a)

NegationNormalResult ==
    calls = <<"simplify">> => NegationNormal(g)

\* A negated implication or biconditional has been normalised.
NegationNormalWitness ==
    /\ calls = <<"simplify">>
    /\ input.tag = "Not"
    /\ input.kids[1].tag \in {"Implies", "Iff"}
    /\ Contains(g, {"Not"})
    /\ NegationNormal(g)

\* C4: idempotence.  simplify applied to the result of simplify returns the
\* same tree, up to the order of And / Or children.
Idempotence ==
    calls = <<"simplify", "simplify">> => Unordered(g) = Unordered(prev)

\* simplify ran twice on a formula its first run distributed.
IdempotenceWitness ==
    /\ calls = <<"simplify", "simplify">>
    /\ Contains(input, {"And"})
    /\ prev # input
    /\ g.tag = "Or"
    /\ Len(g.kids) > 1

\* C5: invalid-input fault.  simplify2 or simplify3 called directly on a tree
\* holding an Implies or Iff node anywhere ends in a fault.
InvalidInputFaults ==
    (calls \in {<<"simplify2">>, <<"simplify3">>}
        /\ Contains(input, {"Implies", "Iff"})) => g = Fault

\* C6: totality.  simplify returns a formula on every input, and neither
\* simplify2 nor simplify3 faults on the output of the preceding pass.
PipelineTotal ==
    calls \in {<<"simplify">>, <<"simplify1">>, <<"simplify1", "simplify2">>,
               <<"simplify1", "simplify2", "simplify3">>}
        => g # Fault

\* The pipeline returned a formula for an input on which simplify2 alone
\* faults.
PipelineTotalWitness ==
    /\ calls \in {<<"simplify">>, <<"simplify1", "simplify2", "simplify3">>}
    /\ simplify2(input) = Fault
    /\ g # Fault

\* C7: simplify3 on an And none of whose distributed children is an Or
\* returns exactly the And of the distributed children.
AndWithoutMultiples ==
    (Len(calls) > 0 /\ Last(calls) = "simplify3" /\ prev.tag = "And"
        /\ NegationNormal(prev)
        /\ \A i \in 1..Len(prev.kids) : simplify3(prev.kids[i]).tag # "Or")
      => g = And(Map(simplify3, prev.kids))

\* C8: simplify3 on an Or returns the Or of its distributed children, in
\* order.
OrDistributesChildren ==
    (Len(calls) > 0 /\ Last(calls) = "simplify3" /\ prev.tag = "Or"
        /\ NegationNormal(prev))
      => g = Or(Map(simplify3, prev.kids))

\* The product of the first n entries of a sequence of numbers.
RECURSIVE ProdUpTo(_, _)
ProdUpTo(ns, n) == IF n = 0 THEN 1 ELSE ProdUpTo(ns, n - 1) * ns[n]

\* The claimed result of simplify3 for the distributed children d of an And.
CartesianOr(d) ==
    LET s == SelectSeq(d, LAMBDA x : x.tag # "Or")
        c == Map(LAMBDA x : x.kids, SelectSeq(d, LAMBDA x : x.tag = "Or"))
        k == Len(c)
        n == [i \in 1..k |-> Len(c[i])]
        clause(j) ==
            And(s \o [i \in 1..k |->
                        c[i][((j \div ProdUpTo(n, i - 1)) % n[i]) + 1]])
    IN Or([j \in 1..ProdUpTo(n, k) |-> clause(j - 1)])

\* The distributed children of the And that simplify3 was last called on hold
\* at least one Or, and no empty Or.
CartesianCase ==
    /\ Len(calls) > 0
    /\ Last(calls) = "simplify3"
    /\ prev.tag = "And"
    /\ NegationNormal(prev)
    /\ LET d == Map(simplify3, prev.kids) IN
         /\ \E i \in 1..Len(d) : d[i].tag = "Or"
         /\ \A i \in 1..Len(d) : d[i].tag = "Or" => Len(d[i].kids) > 0

\* C9: Cartesian product.  For an And whose distributed children are singles
\* s and k >= 1 non-empty Or nodes of sizes n_1..n_k, simplify3 returns an Or
\* of n_1*...*n_k clauses, clause j being And(s ++ one pick per Or), the pick
\* from Or i being child (j div (n_1*...*n_(i-1))) mod n_i.
CartesianProduct ==
    CartesianCase => g = CartesianOr(Map(simplify3, prev.kids))

\* An And of a single and two Or nodes of different sizes was distributed
\* into six clauses of three children.
CartesianProductWitness ==
    /\ CartesianCase
    /\ Len(prev.kids) = 3
    /\ g.tag = "Or"
    /\ Len(g.kids) = 6
    /\ \A j \in 1..6 : Len(g.kids[j].kids) = 3
    /\ \E i \in 1..3 : prev.kids[i].tag # "Or"

\* C10: the result of simplify on main's example (P AND ~Q) -> R is the flat
\* clause Or(~P, Q, R).
ExampleIsFlatClause ==
    (calls = <<"simplify">> /\ input = MainExample)
      => g = Or(<<Not(Atom("P")), Atom("Q"), Atom("R")>>)

====
